---- MODULE Spec2Model ----
(***************************************************************************)
(* The counter-increment demonstration p2.c, in its three revisions:       *)
(*   "busy"  unnamed/part_000 lines 1-115   (countLock, busy-waiting)      *)
(*   "cond"  unnamed/part_000 lines 116-277 (mainLock, decreLock, waitCond)*)
(*   "p2"    p2.c                           (adds threadLock, firstRun)    *)
(* main() spawns num_threads threads running thread(); every thread waits  *)
(* for state.start, increments state.counter num_loops times under         *)
(* countLock and decrements state.threads; main waits for state.threads to *)
(* reach 0 and prints the count.                                           *)
(*                                                                         *)
(* Every step below is one access to shared memory or one pthread call.    *)
(* Operations on locals (the loop index i) are merged into the neighbouring*)
(* step.  num_threads and num_loops are taken non-negative.  Memory is      *)
(* sequentially consistent: a volatile load sees the latest store.         *)
(***************************************************************************)
EXTENDS Integers, FiniteSets, Sequences, TLC

MaxThreads == 2
MaxLoops == 2

Workers == 1..MaxThreads
Main == 0
Free == -1
None == <<>>

Revisions == {"busy", "cond", "p2"}

countLock == "countLock"
decreLock == "decreLock"
mainLock == "mainLock"
threadLock == "threadLock"
Mutexes == {countLock, decreLock, mainLock, threadLock}

VARIABLES
  rev,          \* which revision of the program runs
  spurious,     \* whether pthread_cond_wait may return without a signal
  cond_valid,   \* whether waitCond, a zero-filled static object that no
                \* revision initialises, works as a condition variable on
                \* this build; if not, calls on it fail with EINVAL
  num_threads,  \* main: long num_threads
  num_loops,    \* state.num_loops
  start,        \* state.start
  counter,      \* state.counter
  threads,      \* state.threads
  firstRun,     \* static int firstRun (p2.c)
  owner,        \* owner of each mutex, Free when unlocked
  destroyed,    \* mutexes on which pthread_mutex_destroy has taken effect
  mpc,          \* position of main
  pc,           \* position of each thread
  i,            \* loop index of each thread
  reg,          \* register holding state.counter during counter++
  treg,         \* register holding state.threads during threads--
  printed,      \* the final line: <<total count, expected>>, None before
  exit_status,  \* <<return value of main>>, None while running
  init_failed,  \* <<the mutex whose pthread_mutex_init failed>>, else None
  signalled     \* the pthread_cond_signal calls made so far, in order:
                \* <<calling thread, set of threads it unblocked>>

vars == <<rev, spurious, cond_valid, num_threads, num_loops, start, counter, threads,
          firstRun, owner, destroyed, mpc, pc, i, reg, treg, printed,
          exit_status, init_failed, signalled>>

params == <<rev, spurious, cond_valid, num_threads, num_loops>>

\* the mutexes a revision declares and initialises
RevMutexes(r) ==
  IF r = "busy" THEN {countLock}
  ELSE IF r = "cond" THEN {countLock, decreLock, mainLock}
  ELSE Mutexes

Init ==
  /\ rev \in Revisions
  /\ spurious \in BOOLEAN
  /\ cond_valid \in BOOLEAN
  /\ num_threads \in 0..MaxThreads
  /\ num_loops \in 0..MaxLoops
  /\ start = 0
  /\ counter = 0
  /\ threads = 0
  /\ firstRun = 1
  /\ owner = [m \in Mutexes |-> Free]
  /\ destroyed = {}
  /\ mpc = "init"
  /\ pc = [w \in Workers |-> "created"]
  /\ i = [w \in Workers |-> 0]
  /\ reg = [w \in Workers |-> 0]
  /\ treg = [w \in Workers |-> 0]
  /\ printed = None
  /\ exit_status = None
  /\ init_failed = None
  /\ signalled = <<>>

----------------------------------------------------------------------------
(* pthread primitives *)

\* mutant: the lock does not wait for the holder
MutexAvailableNoWait(m) == TRUE

\* pthread_mutex_lock returns only when the mutex is not held
MutexAvailable(m) == owner[m] = Free

\* mutant: pthread_mutex_trylock with its result ignored
pthread_mutex_trylock_unchecked(m, t) ==
  owner' = IF owner[m] = Free THEN [owner EXCEPT ![m] = t] ELSE owner

pthread_mutex_lock(m, t) ==
  /\ MutexAvailable(m)
  /\ owner' = [owner EXCEPT ![m] = t]

pthread_mutex_unlock(m) ==
  owner' = [owner EXCEPT ![m] = Free]

\* pthread_mutex_destroy; both call sites destroy a mutex that is locked,
\* which is undefined: the call either fails with EBUSY and leaves the
\* mutex alone, or takes effect.
pthread_mutex_destroy(m) ==
  \/ destroyed' = destroyed \cup {m}
  \/ /\ owner[m] # Free
     /\ destroyed' = destroyed

\* threads blocked in pthread_cond_wait(&waitCond, ...)
Waiters == {w \in Workers : pc[w] = "waiting"}

\* pthread_cond_signal called by thread t unblocks one waiting thread, if
\* there is any (there is none on a build where waitCond is not valid and
\* the call fails); the thread then has to reacquire mainLock.  pcs is the pc
\* function the signalling thread is about to install.
pthread_cond_signal(t, pcs) ==
  IF Waiters = {}
  THEN /\ pc' = pcs
       /\ signalled' = Append(signalled, <<t, {}>>)
  ELSE \E v \in Waiters :
         /\ pc' = [pcs EXCEPT ![v] = "reacquire"]
         /\ signalled' = Append(signalled, <<t, {v}>>)

----------------------------------------------------------------------------
(* thread() *)

\* first statement of thread() in each revision
ThreadEntry(r) == IF r = "busy" THEN "spin" ELSE "lock_main"

\* the mutex taken around state->counter++
CountGuard == countLock

\* mutant: i < state->num_loops - 1
LoopCondShort(w) == i[w] < num_loops - 1

\* mutant: i <= state->num_loops
LoopCondOffByOne(w) == i[w] <= num_loops

\* for (int i = 0; i < state->num_loops; i++)
LoopCond(w) == i[w] < num_loops

\* mutant: the thread does not wait for start
StartObservedNoWait == TRUE

\* while (state->start == 0) exits
StartObserved == start # 0

\* pthread_mutex_lock(&mainLock) at the top of thread()
ThreadLockMain(w) ==
  /\ pc[w] = "lock_main"
  /\ pthread_mutex_lock(mainLock, w)
  /\ pc' = [pc EXCEPT ![w] = IF rev = "p2" THEN "check_first" ELSE "spin"]
  /\ UNCHANGED <<params, start, counter, threads, firstRun, destroyed, mpc,
                 i, reg, treg, printed, exit_status,
                 init_failed, signalled>>

\* mutant: the thread does not wait on threadLock
ThreadCheckFirstSkipped(w) ==
  /\ pc[w] = "check_first"
  /\ pc' = [pc EXCEPT ![w] = "spin"]
  /\ UNCHANGED <<params, start, counter, threads, firstRun, owner, destroyed,
                 mpc, i, reg, treg, printed, exit_status,
                 init_failed, signalled>>

\* if (firstRun)
ThreadCheckFirst(w) ==
  /\ pc[w] = "check_first"
  /\ pc' = [pc EXCEPT ![w] = IF firstRun # 0 THEN "lock_thread" ELSE "spin"]
  /\ UNCHANGED <<params, start, counter, threads, firstRun, owner, destroyed,
                 mpc, i, reg, treg, printed, exit_status,
                 init_failed, signalled>>

\* pthread_mutex_lock(&threadLock)
ThreadLockThread(w) ==
  /\ pc[w] = "lock_thread"
  /\ pthread_mutex_lock(threadLock, w)
  /\ pc' = [pc EXCEPT ![w] = "destroy_thread"]
  /\ UNCHANGED <<params, start, counter, threads, firstRun, destroyed, mpc,
                 i, reg, treg, printed, exit_status,
                 init_failed, signalled>>

\* mutant: firstRun is not reset
ThreadDestroyThreadKeepsFirstRun(w) ==
  /\ pc[w] = "destroy_thread"
  /\ firstRun' = firstRun
  /\ pthread_mutex_destroy(threadLock)
  /\ pc' = [pc EXCEPT ![w] = "spin"]
  /\ UNCHANGED <<params, start, counter, threads, owner, mpc, i, reg, treg,
                 printed, exit_status,
                 init_failed, signalled>>

\* firstRun = 0; pthread_mutex_destroy(&threadLock)
ThreadDestroyThread(w) ==
  /\ pc[w] = "destroy_thread"
  /\ firstRun' = 0
  /\ pthread_mutex_destroy(threadLock)
  /\ pc' = [pc EXCEPT ![w] = "spin"]
  /\ UNCHANGED <<params, start, counter, threads, owner, mpc, i, reg, treg,
                 printed, exit_status,
                 init_failed, signalled>>

\* while (state->start == 0) { }
\* state->start is a plain int read while main writes it.  In p2.c the loop
\* body calls printf, so start is read again on every iteration.  In the two
\* earlier revisions the body is empty and an optimising build may read
\* start once: a thread that has read 0 may then never leave the loop.
ThreadSpin(w) ==
  /\ pc[w] = "spin"
  /\ IF StartObserved
     THEN pc' = [pc EXCEPT ![w] = IF rev = "busy" THEN "for" ELSE "cond_wait"]
     ELSE \/ pc' = pc
          \/ /\ rev # "p2"
             /\ pc' = [pc EXCEPT ![w] = "hung"]
  /\ UNCHANGED <<params, start, counter, threads, firstRun, owner, destroyed,
                 mpc, i, reg, treg, printed, exit_status,
                 init_failed, signalled>>

\* mutant: the thread does not wait on waitCond
ThreadCondWaitSkipped(w) ==
  /\ pc[w] = "cond_wait"
  /\ pc' = [pc EXCEPT ![w] = "for"]
  /\ UNCHANGED <<params, start, counter, threads, firstRun, owner, destroyed,
                 mpc, i, reg, treg, printed, exit_status,
                 init_failed, signalled>>

\* pthread_cond_wait(&waitCond, &mainLock): release mainLock and block; on
\* a build where waitCond is not a valid condition variable the call
\* returns EINVAL at once, with mainLock still held, and the result is not
\* tested
ThreadCondWait(w) ==
  /\ pc[w] = "cond_wait"
  /\ IF cond_valid
     THEN /\ pthread_mutex_unlock(mainLock)
          /\ pc' = [pc EXCEPT ![w] = "waiting"]
     ELSE /\ owner' = owner
          /\ pc' = [pc EXCEPT ![w] = "for"]
  /\ UNCHANGED <<params, start, counter, threads, firstRun, destroyed, mpc,
                 i, reg, treg, printed, exit_status,
                 init_failed, signalled>>

\* a spurious wakeup from pthread_cond_wait
ThreadSpuriousWake(w) ==
  /\ pc[w] = "waiting"
  /\ spurious
  /\ pc' = [pc EXCEPT ![w] = "reacquire"]
  /\ UNCHANGED <<params, start, counter, threads, firstRun, owner, destroyed,
                 mpc, i, reg, treg, printed, exit_status,
                 init_failed, signalled>>

\* mutant: the wait returns without mainLock
ThreadReacquireNoLock(w) ==
  /\ pc[w] = "reacquire"
  /\ pc' = [pc EXCEPT ![w] = "for"]
  /\ UNCHANGED <<params, start, counter, threads, firstRun, owner, destroyed,
                 mpc, i, reg, treg, printed, exit_status,
                 init_failed, signalled>>

\* pthread_cond_wait returns with mainLock held
ThreadReacquire(w) ==
  /\ pc[w] = "reacquire"
  /\ pthread_mutex_lock(mainLock, w)
  /\ pc' = [pc EXCEPT ![w] = "for"]
  /\ UNCHANGED <<params, start, counter, threads, firstRun, destroyed, mpc,
                 i, reg, treg, printed, exit_status,
                 init_failed, signalled>>

\* the loop test, and pthread_mutex_lock(&countLock) when it passes
ThreadFor(w) ==
  /\ pc[w] = "for"
  /\ IF LoopCond(w)
     THEN /\ pthread_mutex_lock(CountGuard, w)
          /\ pc' = [pc EXCEPT ![w] = "read_counter"]
     ELSE /\ pc' = [pc EXCEPT ![w] =
                      IF rev = "busy" THEN "dec_read" ELSE "unlock_main"]
          /\ owner' = owner
  /\ UNCHANGED <<params, start, counter, threads, firstRun, destroyed, mpc,
                 i, reg, treg, printed, exit_status,
                 init_failed, signalled>>

\* state->counter++: the load
ThreadReadCounter(w) ==
  /\ pc[w] = "read_counter"
  /\ reg' = [reg EXCEPT ![w] = counter]
  /\ pc' = [pc EXCEPT ![w] = "write_counter"]
  /\ UNCHANGED <<params, start, counter, threads, firstRun, owner, destroyed,
                 mpc, i, treg, printed, exit_status,
                 init_failed, signalled>>

\* state->counter++: the store
ThreadWriteCounter(w) ==
  /\ pc[w] = "write_counter"
  /\ counter' = reg[w] + 1
  /\ pc' = [pc EXCEPT ![w] = "unlock_count"]
  /\ UNCHANGED <<params, start, threads, firstRun, owner, destroyed, mpc, i,
                 reg, treg, printed, exit_status,
                 init_failed, signalled>>

\* pthread_mutex_unlock(&countLock); i++
ThreadUnlockCount(w) ==
  /\ pc[w] = "unlock_count"
  /\ pthread_mutex_unlock(CountGuard)
  /\ i' = [i EXCEPT ![w] = i[w] + 1]
  /\ pc' = [pc EXCEPT ![w] = "for"]
  /\ UNCHANGED <<params, start, counter, threads, firstRun, destroyed, mpc,
                 reg, treg, printed, exit_status,
                 init_failed, signalled>>

\* pthread_mutex_unlock(&mainLock)
ThreadUnlockMain(w) ==
  /\ pc[w] = "unlock_main"
  /\ pthread_mutex_unlock(mainLock)
  /\ pc' = [pc EXCEPT ![w] = "lock_decre"]
  /\ UNCHANGED <<params, start, counter, threads, firstRun, destroyed, mpc,
                 i, reg, treg, printed, exit_status,
                 init_failed, signalled>>

\* pthread_mutex_lock(&decreLock)
ThreadLockDecre(w) ==
  /\ pc[w] = "lock_decre"
  /\ pthread_mutex_lock(decreLock, w)
  /\ pc' = [pc EXCEPT ![w] = "dec_read"]
  /\ UNCHANGED <<params, start, counter, threads, firstRun, destroyed, mpc,
                 i, reg, treg, printed, exit_status,
                 init_failed, signalled>>

\* state->threads--: the load
ThreadDecRead(w) ==
  /\ pc[w] = "dec_read"
  /\ treg' = [treg EXCEPT ![w] = threads]
  /\ pc' = [pc EXCEPT ![w] = "dec_write"]
  /\ UNCHANGED <<params, start, counter, threads, firstRun, owner, destroyed,
                 mpc, i, reg, printed, exit_status,
                 init_failed, signalled>>

\* state->threads--: the store; the busy-wait revision then returns
ThreadDecWrite(w) ==
  /\ pc[w] = "dec_write"
  /\ threads' = treg[w] - 1
  /\ pc' = [pc EXCEPT ![w] = IF rev = "busy" THEN "done" ELSE "check_last"]
  /\ UNCHANGED <<params, start, counter, firstRun, owner, destroyed, mpc, i,
                 reg, treg, printed, exit_status,
                 init_failed, signalled>>

\* if ((state->threads) == 0)
LastThread == threads = 0

\* if (state->threads == 0) pthread_cond_signal(&waitCond)
ThreadCheckLast(w) ==
  /\ pc[w] = "check_last"
  /\ IF LastThread
     THEN pthread_cond_signal(w, [pc EXCEPT ![w] = "unlock_decre"])
     ELSE /\ pc' = [pc EXCEPT ![w] = "unlock_decre"]
          /\ signalled' = signalled
  /\ UNCHANGED <<params, start, counter, threads, firstRun, owner, destroyed,
                 mpc, i, reg, treg, printed, exit_status, init_failed>>

\* pthread_mutex_unlock(&decreLock); return NULL
ThreadUnlockDecre(w) ==
  /\ pc[w] = "unlock_decre"
  /\ pthread_mutex_unlock(decreLock)
  /\ pc' = [pc EXCEPT ![w] = "done"]
  /\ UNCHANGED <<params, start, counter, threads, firstRun, destroyed, mpc,
                 i, reg, treg, printed, exit_status,
                 init_failed, signalled>>

----------------------------------------------------------------------------
(* main() *)

\* mutant: while (state.threads < num_threads - 1)
SpawnDoneEarly == threads >= num_threads - 1

\* mutant: while (state.threads <= num_threads)
SpawnDoneLate == threads > num_threads

\* while (state.threads < num_threads) has ended
SpawnDone == threads >= num_threads

\* mutant: while (state.threads > 1)
StillRunningButOne == threads > 1

\* while (state.threads > 0)
StillRunning == threads > 0

\* state.num_loops * num_threads
Expected == num_loops * num_threads

\* mutant: the result of pthread_mutex_init(&threadLock, NULL) is not tested
InitCheckedButLast(m) == m # threadLock

\* if (pthread_mutex_init(&m, NULL) != 0): the result of every
\* pthread_mutex_init call is tested
InitChecked(m) == TRUE

\* the pthread_mutex_init calls: all succeed, or the call for one mutex m
\* fails; main then prints "... mutex initialization failed" and goes to
\* return -1
MainInit ==
  /\ mpc = "init"
  /\ \/ /\ mpc' = IF rev = "p2" THEN "lock_thread" ELSE "spawn"
        /\ init_failed' = init_failed
     \/ \E m \in RevMutexes(rev) :
          /\ init_failed' = <<m>>
          /\ mpc' = IF InitChecked(m) THEN "return_fail"
                    ELSE IF rev = "p2" THEN "lock_thread" ELSE "spawn"
  /\ UNCHANGED <<params, start, counter, threads, firstRun, owner, destroyed,
                 pc, i, reg, treg, printed, exit_status, signalled>>

\* return -1
MainReturnFail ==
  /\ mpc = "return_fail"
  /\ exit_status' = <<-1>>
  /\ mpc' = "exited"
  /\ UNCHANGED <<params, start, counter, threads, firstRun, owner, destroyed,
                 pc, i, reg, treg, printed, init_failed, signalled>>

\* pthread_mutex_lock(&threadLock)
MainLockThread ==
  /\ mpc = "lock_thread"
  /\ pthread_mutex_lock(threadLock, Main)
  /\ mpc' = "spawn"
  /\ UNCHANGED <<params, start, counter, threads, firstRun, destroyed, pc, i,
                 reg, treg, printed, exit_status,
                 init_failed, signalled>>

\* the loop test and pthread_create
MainSpawn ==
  /\ mpc = "spawn"
  /\ IF SpawnDone
     THEN /\ mpc' = "set_start"
          /\ pc' = pc
     ELSE /\ mpc' = "incr"
          /\ pc' = [pc EXCEPT ![threads + 1] = ThreadEntry(rev)]
  /\ UNCHANGED <<params, start, counter, threads, firstRun, owner, destroyed,
                 i, reg, treg, printed, exit_status,
                 init_failed, signalled>>

\* state.threads++
MainIncr ==
  /\ mpc = "incr"
  /\ threads' = threads + 1
  /\ mpc' = "spawn"
  /\ UNCHANGED <<params, start, counter, firstRun, owner, destroyed, pc, i,
                 reg, treg, printed, exit_status,
                 init_failed, signalled>>

\* state.start = 1
MainSetStart ==
  /\ mpc = "set_start"
  /\ start' = 1
  /\ mpc' = IF rev = "p2" THEN "unlock_thread"
            ELSE IF rev = "cond" THEN "lock_main" ELSE "wait"
  /\ UNCHANGED <<params, counter, threads, firstRun, owner, destroyed, pc, i,
                 reg, treg, printed, exit_status,
                 init_failed, signalled>>

\* pthread_mutex_unlock(&threadLock)
MainUnlockThread ==
  /\ mpc = "unlock_thread"
  /\ pthread_mutex_unlock(threadLock)
  /\ mpc' = "lock_main"
  /\ UNCHANGED <<params, start, counter, threads, firstRun, destroyed, pc, i,
                 reg, treg, printed, exit_status,
                 init_failed, signalled>>

\* sleep(1); pthread_mutex_lock(&mainLock)
MainLockMain ==
  /\ mpc = "lock_main"
  /\ pthread_mutex_lock(mainLock, Main)
  /\ mpc' = "wait"
  /\ UNCHANGED <<params, start, counter, threads, firstRun, destroyed, pc, i,
                 reg, treg, printed, exit_status,
                 init_failed, signalled>>

\* while (state.threads > 0)
MainWait ==
  /\ mpc = "wait"
  /\ mpc' = IF StillRunning THEN "wait" ELSE "report"
  /\ UNCHANGED <<params, start, counter, threads, firstRun, owner, destroyed,
                 pc, i, reg, treg, printed, exit_status,
                 init_failed, signalled>>

\* printf ("%ld total count, expected %ld, ...")
MainReport ==
  /\ mpc = "report"
  /\ printed' = <<counter, Expected>>
  /\ mpc' = IF rev = "p2" THEN "destroy_main"
            ELSE IF rev = "cond" THEN "unlock_main" ELSE "return"
  /\ UNCHANGED <<params, start, counter, threads, firstRun, owner, destroyed,
                 pc, i, reg, treg, exit_status,
                 init_failed, signalled>>

\* pthread_mutex_destroy(&mainLock)
MainDestroyMain ==
  /\ mpc = "destroy_main"
  /\ pthread_mutex_destroy(mainLock)
  /\ mpc' = "return"
  /\ UNCHANGED <<params, start, counter, threads, firstRun, owner, pc, i,
                 reg, treg, printed, exit_status,
                 init_failed, signalled>>

\* pthread_mutex_unlock(&mainLock)
MainUnlockMain ==
  /\ mpc = "unlock_main"
  /\ pthread_mutex_unlock(mainLock)
  /\ mpc' = "return"
  /\ UNCHANGED <<params, start, counter, threads, firstRun, destroyed, pc, i,
                 reg, treg, printed, exit_status,
                 init_failed, signalled>>

\* return 0
MainReturn ==
  /\ mpc = "return"
  /\ exit_status' = <<0>>
  /\ mpc' = "exited"
  /\ UNCHANGED <<params, start, counter, threads, firstRun, owner, destroyed,
                 pc, i, reg, treg, printed,
                 init_failed, signalled>>

----------------------------------------------------------------------------

\* the steps of thread w that the scheduler runs
ThreadStep(w) ==
  \/ ThreadLockMain(w)
  \/ ThreadCheckFirst(w)
  \/ ThreadLockThread(w)
  \/ ThreadDestroyThread(w)
  \/ ThreadSpin(w)
  \/ ThreadCondWait(w)
  \/ ThreadReacquire(w)
  \/ ThreadFor(w)
  \/ ThreadReadCounter(w)
  \/ ThreadWriteCounter(w)
  \/ ThreadUnlockCount(w)
  \/ ThreadUnlockMain(w)
  \/ ThreadLockDecre(w)
  \/ ThreadDecRead(w)
  \/ ThreadDecWrite(w)
  \/ ThreadCheckLast(w)
  \/ ThreadUnlockDecre(w)

MainStep ==
  \/ MainInit
  \/ MainReturnFail
  \/ MainLockThread
  \/ MainSpawn
  \/ MainIncr
  \/ MainSetStart
  \/ MainUnlockThread
  \/ MainLockMain
  \/ MainWait
  \/ MainReport
  \/ MainDestroyMain
  \/ MainUnlockMain
  \/ MainReturn

Next ==
  \/ MainStep
  \/ \E w \in Workers : ThreadStep(w)
  \/ \E w \in Workers : ThreadSpuriousWake(w)

Spec == Init /\ [][Next]_vars

\* Every thread that can take a step is eventually scheduled, and a thread
\* waiting for a mutex that keeps becoming free eventually gets it.  A
\* spurious wakeup is never guaranteed.
FairSpec ==
  /\ Spec
  /\ SF_vars(MainStep)
  /\ \A w \in Workers : SF_vars(ThreadStep(w))

----------------------------------------------------------------------------
(* Properties *)

RECURSIVE Sum(_, _)
Sum(f, S) ==
  IF S = {} THEN 0
  ELSE LET x == CHOOSE y \in S : TRUE IN f[x] + Sum(f, S \ {x})

Spawned == 1..num_threads

\* the number of times thread w has executed state->counter++
IncrementsDone == [w \in Workers |->
                     i[w] + (IF pc[w] = "unlock_count" THEN 1 ELSE 0)]

\* thread w is inside the read-increment-write of state->counter
InCounterSection(w) == pc[w] \in {"read_counter", "write_counter"}

\* thread w has stored its decrement of state->threads
Decremented(w) == pc[w] \in {"check_last", "unlock_decre", "done"}

\* thread w has left the loop that waits for start
PastStart(w) ==
  pc[w] \in {"cond_wait", "waiting", "reacquire", "for", "read_counter",
             "write_counter", "unlock_count", "unlock_main", "lock_decre",
             "dec_read", "dec_write", "check_last", "unlock_decre", "done"}

\* main has left the spawn loop and has created num_threads threads
SpawningFinished ==
  /\ mpc \notin {"init", "lock_thread", "spawn", "incr"}
  /\ \A w \in Spawned : pc[w] # "created"

Reported == printed # None

\* C1: with num_threads >= 1 and num_loops >= 1, when main prints its line
\* (it has read state.threads == 0) state.counter is
\* num_threads * num_loops, on every interleaving.
C1_ReportExact ==
  (num_threads >= 1 /\ num_loops >= 1) =>
    /\ mpc = "report" => counter = num_threads * num_loops
    /\ Reported => printed[1] = num_threads * num_loops

C1_Witness ==
  /\ rev = "p2"
  /\ num_threads >= 2
  /\ num_loops >= 1
  /\ Reported

\* C2: with num_threads >= 1 the run of p2.c completes: under fair
\* scheduling every thread returns and main prints its line.
C2_RunCompletes ==
  (rev = "p2" /\ num_threads >= 1 /\ mpc = "spawn")
    ~> (Reported /\ \A w \in Spawned : pc[w] = "done")

\* C3: a thread inside the read-increment-write of state.counter holds
\* countLock, and at most one thread is inside it.
C3_CounterGuarded ==
  /\ \A w \in Workers : InCounterSection(w) => owner[countLock] = w
  /\ Cardinality({w \in Workers : InCounterSection(w)}) <= 1

C3_Witness ==
  \E w, v \in Workers :
    /\ w # v
    /\ pc[w] = "write_counter"
    /\ pc[v] = "for"
    /\ LoopCond(v)

\* C4: no increment is lost: state.counter equals the number of
\* state->counter++ statements the threads have executed so far.
C4_NoLostIncrement == counter = Sum(IncrementsDone, Workers)

C4_Witness ==
  \E w, v \in Workers :
    /\ w # v
    /\ pc[w] = "unlock_count"
    /\ i[w] >= 1
    /\ i[v] >= 1

\* C5: state.threads is never negative.
C5_NonNegative == threads >= 0

C5_Witness ==
  /\ num_threads >= 2
  /\ \A w \in Spawned : pc[w] = "done"
  /\ threads = 0

\* C6: after start is set with num_threads >= 1, state.threads reaches 0
\* exactly once: under fair scheduling it eventually is 0, and once it is 0
\* it is not modified again.
C6_ReachesZeroOnce ==
  /\ (rev = "p2" /\ start = 1 /\ num_threads >= 1) ~> (threads = 0)
  /\ [][(start = 1 /\ threads = 0) => threads' = 0]_vars

\* C7: every write to state.threads, main's increment and a thread's
\* decrement alike, is made by a writer holding decreLock, the guard of
\* state.threads, so that no two writes overlap.
C7_ThreadsWritesGuarded ==
  /\ mpc = "incr" => owner[decreLock] = Main
  /\ \A w \in Workers : pc[w] = "dec_write" => owner[decreLock] = w
  /\ Cardinality({w \in Workers : pc[w] = "dec_write"}) <= 1

\* C8: no thread sees start set, and none makes its first increment, before
\* main has spawned all num_threads threads; when main sets start,
\* state.threads is num_threads.
C8_NoEarlyStart ==
  /\ mpc = "set_start" => (threads = num_threads /\ SpawningFinished)
  /\ start # 0 => SpawningFinished
  /\ \A w \in Workers :
       (PastStart(w) \/ IncrementsDone[w] >= 1) => SpawningFinished

C8_Witness ==
  /\ num_threads >= 2
  /\ start = 1
  /\ \E w \in Workers : pc[w] = "write_counter" /\ i[w] = 0

\* C9: main prints its line only after full completion: every one of the
\* num_threads threads has then made all num_loops increments and has
\* decremented state.threads.
C9_ReportAfterCompletion ==
  (mpc = "report" \/ Reported) =>
    \A w \in Spawned : IncrementsDone[w] = num_loops /\ Decremented(w)

C9_Witness ==
  /\ rev = "busy"
  /\ num_threads >= 2
  /\ num_loops >= 1
  /\ Reported

\* C10: with num_threads = 0 no thread is spawned and main reaches its
\* report without ever waiting for a mutex or for state.threads, and prints
\* count 0, expected 0.
C10_ZeroThreads ==
  (num_threads = 0) =>
    /\ \A w \in Workers : pc[w] = "created"
    /\ mpc # "exited" => ENABLED MainStep
    /\ mpc = "wait" => ~StillRunning
    /\ Reported => printed = <<0, 0>>

C10_Witness ==
  /\ rev = "p2"
  /\ num_threads = 0
  /\ num_loops >= 1
  /\ printed = <<0, 0>>

\* C11: main returns a failure status exactly when the initialisation of a
\* synchronisation resource fails; it then returns at once: no thread has
\* been spawned and state.start, state.counter and state.threads still have
\* their initial values.  (waitCond is never initialised by a call, so only
\* the pthread_mutex_init calls can fail.)
C11_InitFailureExit ==
  /\ mpc = "exited" => (exit_status = <<-1>> <=> init_failed # None)
  /\ exit_status # None => exit_status \in {<<0>>, <<-1>>}
  /\ init_failed # None =>
       /\ mpc \in {"return_fail", "exited"}
       /\ \A w \in Workers : pc[w] = "created"
       /\ start = 0 /\ counter = 0 /\ threads = 0
       /\ printed = None

C11_Witness ==
  /\ rev = "p2"
  /\ init_failed = <<threadLock>>
  /\ exit_status = <<-1>>

\* thread w is waiting for the start signal: it polls state.start, or it is
\* blocked on threadLock, which main holds until it has set start
AwaitingStart(w) ==
  \/ pc[w] = "spin" /\ start = 0
  \/ pc[w] = "hung"
  \/ pc[w] = "lock_thread"

\* the mutexes thread t holds
Held(t) == {m \in Mutexes : owner[m] = t}

\* C12: no thread holds a mutex while it waits (polling or blocked) for the
\* start signal.
C12_NoGuardWhileAwaitingStart ==
  \A w \in Workers : AwaitingStart(w) => Held(w) = {}

\* C13: while main waits for state.threads to become 0 it holds no mutex
\* that a thread has to lock, or to reacquire after pthread_cond_wait.
C13_CoordinatorWaitsUnlocked ==
  (mpc = "wait" /\ StillRunning) => Held(Main) = {}

\* C14: every thread decrements state.threads once and only after its last
\* increment: a thread at or past its decrement has made num_loops
\* increments, and a thread that has decremented never decrements again.
C14_DecrementOnceAfterLoop ==
  /\ [](\A w \in Workers :
          (pc[w] \in {"dec_read", "dec_write"} \/ Decremented(w))
            => (i[w] = num_loops /\ IncrementsDone[w] = num_loops))
  /\ [][\A w \in Workers : Decremented(w) => Decremented(w)']_vars

C14_Witness ==
  \E w, v \in Workers :
    /\ w # v
    /\ num_loops >= 1
    /\ Decremented(w)
    /\ pc[v] = "read_counter"

\* C15: pthread_cond_signal is called by a thread exactly when its
\* decrement, made under decreLock, leaves state.threads at 0: only by the
\* last thread to finish, at most once in a run; and the call releases the
\* task that waits for overall completion, main.
C15_SignalReleasesCoordinator ==
  /\ Len(signalled) <= 1
  /\ Len(signalled) >= 1 =>
       (threads = 0 /\ \A w \in Spawned : Decremented(w))
  /\ (rev # "busy" /\ num_threads >= 1
        /\ \A w \in Spawned : pc[w] \in {"unlock_decre", "done"})
       => Len(signalled) = 1
  /\ \A k \in 1..Len(signalled) : signalled[k][2] = {Main}

\* C16: a thread releases every mutex it locks: it holds countLock only
\* around one state->counter++, and a thread that has returned holds no
\* mutex.
C16_GuardsReleased ==
  /\ \A w \in Workers :
       owner[countLock] = w =>
         pc[w] \in {"read_counter", "write_counter", "unlock_count"}
  /\ \A w \in Workers : pc[w] = "done" => Held(w) = {}

\* thread w is inside its increment loop, up to the unlock of mainLock
InLoop(w) ==
  pc[w] \in {"for", "read_counter", "write_counter", "unlock_count",
             "unlock_main"}

\* C17: in p2.c no thread ever reads state.start as 0: main holds threadLock
\* from before the first pthread_create until after state.start = 1, the
\* first thread holds mainLock while it is blocked on threadLock, and until
\* then every other thread is blocked on mainLock.
C17_SpinNeverTaken ==
  (rev = "p2") =>
    /\ \A w \in Workers : pc[w] = "spin" => start # 0
    /\ mpc \in {"spawn", "incr", "set_start", "unlock_thread"}
         => owner[threadLock] = Main
    /\ \A w \in Workers : pc[w] = "lock_thread" => owner[mainLock] = w
    /\ start = 0 =>
         \A w \in Workers :
           pc[w] \in {"created", "lock_main", "check_first", "lock_thread"}

C17_Witness ==
  /\ rev = "p2"
  /\ \E w, v \in Workers :
       /\ w # v
       /\ pc[w] = "spin"
       /\ pc[v] = "lock_main"

\* C18: in p2.c and in the condition-variable revision a thread runs its
\* whole increment loop holding mainLock, so at most one thread is inside
\* its loop at a time.
C18_LoopUnderMainLock ==
  (rev \in {"p2", "cond"}) =>
    /\ \A w \in Workers : InLoop(w) => owner[mainLock] = w
    /\ Cardinality({w \in Workers : InLoop(w)}) <= 1

C18_Witness ==
  /\ rev \in {"p2", "cond"}
  /\ \E w, v \in Workers :
       /\ w # v
       /\ pc[w] = "write_counter"
       /\ i[w] >= 1
       /\ pc[v] = "reacquire"

C20_LostDecrementIsSafe ==
  (rev = "busy") =>
    /\ threads >= 0
    /\ (start # 0 /\ threads = 0) =>
         \A w \in Spawned : pc[w] = "done" /\ IncrementsDone[w] = num_loops
    /\ (mpc = "report" \/ Reported) =>
         \A w \in Spawned : pc[w] = "done" /\ IncrementsDone[w] = num_loops

C20_Witness ==
  /\ rev = "busy"
  /\ num_threads >= 2
  /\ \A w \in Spawned : pc[w] = "done"
  /\ threads > 0

\* the mutexes that the next pthread call of thread w locks, unlocks or
\* waits with
ThreadTouches(w) ==
  IF pc[w] \in {"lock_main", "cond_wait", "waiting", "reacquire",
                "unlock_main"} THEN {mainLock}
  ELSE IF pc[w] = "lock_thread" THEN {threadLock}
  ELSE IF pc[w] = "for" /\ LoopCond(w) THEN {countLock}
  ELSE IF pc[w] = "unlock_count" THEN {countLock}
  ELSE IF pc[w] \in {"lock_decre", "unlock_decre"} THEN {decreLock}
  ELSE {}

\* the mutexes that the next pthread call of main locks or unlocks
MainTouches ==
  IF mpc \in {"lock_thread", "unlock_thread"} THEN {threadLock}
  ELSE IF mpc \in {"lock_main", "unlock_main"} THEN {mainLock}
  ELSE {}

\* thread w still has a pthread call on mainLock ahead of it
NeedsMainLock(w) ==
  pc[w] \in {"lock_main", "check_first", "lock_thread", "destroy_thread",
             "spin", "hung", "cond_wait", "waiting", "reacquire", "for",
             "read_counter", "write_counter", "unlock_count", "unlock_main"}

\* main has executed pthread_mutex_unlock(&threadLock)
MainUnlockedThreadLock ==
  mpc \notin {"init", "return_fail", "lock_thread", "spawn", "incr",
              "set_start", "unlock_thread"}

\* C21: in p2.c no mutex is locked, unlocked or waited on after it has been
\* destroyed.  threadLock is destroyed by one thread only, the one that saw
\* firstRun == 1 (read and written under mainLock), after main has unlocked
\* it, and nobody touches it again; main destroys mainLock only when no
\* thread has a lock, unlock or reacquisition of it ahead.
C21_NoUseAfterDestroy ==
  /\ [](rev = "p2" =>
          /\ \A m \in destroyed :
               /\ m \notin MainTouches
               /\ \A w \in Workers : m \notin ThreadTouches(w)
          /\ \A w \in Workers :
               pc[w] \in {"check_first", "lock_thread", "destroy_thread"}
                 => owner[mainLock] = w
          /\ \A w \in Workers :
               pc[w] \in {"lock_thread", "destroy_thread"} => firstRun = 1
          /\ \A w \in Workers :
               pc[w] = "destroy_thread"
                 => (owner[threadLock] = w /\ MainUnlockedThreadLock)
          /\ firstRun = 0 => MainTouches # {threadLock}
          /\ (mpc = "destroy_main" \/ mainLock \in destroyed)
               => \A w \in Spawned : ~NeedsMainLock(w))
  /\ [][\A m \in destroyed : owner'[m] = owner[m]]_vars
  /\ [][firstRun = 0 => firstRun' = 0]_vars

C21_Witness ==
  /\ rev = "p2"
  /\ num_threads >= 2
  /\ destroyed = {threadLock, mainLock}
  /\ exit_status = <<0>>

====
